---- MODULE Spec2Model ----
(***************************************************************************)
(* Storage (ametsuchi::StorageImpl) and Simulator of the iroha node.       *)
(*                                                                         *)
(* StorageImpl owns three backends: the flat-file block store, the redis   *)
(* index and the postgres world state view (WSV).  Mutable views stage     *)
(* blocks, index entries and WSV changes; commit() promotes them.  The     *)
(* Simulator turns proposals into candidate blocks against the block       *)
(* query.                                                                  *)
(***************************************************************************)
EXTENDS Integers, Sequences, FiniteSets, TLC

\* ------------------------------------------------------------------ bounds
MaxViews == 2        \* createMutableStorage calls in one behaviour
MaxBlocks == 3       \* blocks staged into mutable views in one behaviour
MaxHeight == 2       \* length of the ledger the Simulator runs against
MaxTxs == 1          \* transactions in one block or proposal
MaxProposals == 2    \* proposals delivered to the Simulator
MaxSubmissions == 11 \* transactions submitted to the command service

VARIABLES
    block_store,   \* StorageImpl::block_store_ : height -> serialized block
    index,         \* the redis index              : height -> block hash
    wsv,           \* committed WSV: the blocks whose commands were applied
    views,         \* the MutableStorageImpl objects handed out, by creation order
    nviews,        \* how many createMutableStorage calls returned a view
    rw_lock,       \* StorageImpl::rw_lock_ : 0 free, v held by commit of view v
    created,       \* what the last createMutableStorage call returned
    observed,      \* what the last read through the query handles saw
    last_block,    \* Simulator::last_block
    notifier,      \* stream A: verified proposals emitted, oldest first
    block_notifier,\* stream B: candidate blocks emitted, oldest first
    temporary,     \* how many temporary WSVs the Simulator opened
    proposal,      \* the proposal last delivered to process_proposal
    ndelivered,    \* how many proposals were delivered
    faulted,       \* the Simulator dereferenced a null temporary WSV and died
    queue,         \* ordering::queue : the pending transactions, oldest first
    request,       \* the transaction last submitted to CommandService::Torii
    response,      \* the ToriiResponse that call wrote
    nsubmitted,    \* how many transactions were submitted
    config_,       \* Application::config_ : listen address and keypair
    ndebug,        \* the build defines NDEBUG: BOOST_ASSERT expands to nothing
    app_pc,        \* where the thread that owns the Application stands
    held,          \* the backend connections that are open
    open_order,    \* the backends initConnections opened, in the order it did
    storage,       \* Application::storage : "nullptr", "object" or "closed"
    peer,          \* Application::peer
    yac_address,   \* the address initConsensusGate handed to the consensus gate
    internal_server,\* Application::internal_server
    torii_server,  \* Application::torii_server
    server_thread, \* Application::server_thread
    port,          \* the local int *port of Application::run
    run_called     \* Application::run was entered

storageVars == <<block_store, index, wsv, views, nviews, rw_lock, created, observed>>
simulatorVars == <<last_block, notifier, block_notifier, temporary, proposal, ndelivered, faulted>>
toriiVars == <<queue, request, response, nsubmitted>>
appVars == <<config_, ndebug, app_pc, held, open_order, storage, peer, yac_address,
             internal_server, torii_server, server_thread, port, run_called>>
vars == <<block_store, index, wsv, views, nviews, rw_lock, created, observed,
          last_block, notifier, block_notifier, temporary, proposal, ndelivered, faulted,
          queue, request, response, nsubmitted,
          config_, ndebug, app_pc, held, open_order, storage, peer, yac_address,
          internal_server, torii_server, server_thread, port, run_called>>

\* ------------------------------------------------------------------ blocks
\* hash256_t{} : the all-zero hash
ZeroHash == <<>>

\* the transaction lists of at most MaxTxs transactions: a transaction is named
\* by its place in the list it was submitted in
TxLists == {[i \in 1 .. n |-> i] : n \in 0 .. MaxTxs}

\* H(height, prev_hash, merkle_root, created_ts, txs_number): collision-free
get_hash(b) == <<b.height, b.prev_hash, b.merkle_root, b.created_ts, b.txs_number>>

\* model::Block() : every field value-initialised
EmptyBlock ==
    [height |-> 0, prev_hash |-> ZeroHash, transactions |-> <<>>, txs_number |-> 0,
     created_ts |-> 0, merkle_root |-> ZeroHash, hash |-> ZeroHash, sigs |-> <<>>]

\* model::Signature{} : the default-constructed signature pushed onto sigs
EmptySignature == [signature |-> ZeroHash, pubkey |-> ZeroHash]

\* the canonical serialized form of a block written to the flat file
serialize(b) ==
    <<b.height, b.prev_hash, b.transactions, b.txs_number,
      b.created_ts, b.merkle_root, b.hash, b.sigs>>

deserialize(s) ==
    [height |-> s[1], prev_hash |-> s[2], transactions |-> s[3], txs_number |-> s[4],
     created_ts |-> s[5], merkle_root |-> s[6], hash |-> s[7], sigs |-> s[8]]

Min(S) == CHOOSE x \in S : \A y \in S : x <= y
Max(S) == CHOOSE x \in S : \A y \in S : x >= y

\* FlatFile::add : a height is written once; a second add of it changes nothing
FlatFileAdd(store, id, bytes) ==
    IF id \in DOMAIN store THEN store
    ELSE [h \in DOMAIN store \cup {id} |-> IF h = id THEN bytes ELSE store[h]]

\* BlockQuery::getBlocks(from, to) : the stored blocks of heights from..to, ascending
RECURSIVE getBlocksFrom(_, _, _)
getBlocksFrom(store, from, to) ==
    IF from > to THEN <<>>
    ELSE (IF from \in DOMAIN store THEN <<deserialize(store[from])>> ELSE <<>>)
         \o getBlocksFrom(store, from + 1, to)

getBlocks(store, from, to) == getBlocksFrom(store, from, to)

\* BlockQuery::getTopBlocks(1) : the block of the greatest stored height, if any
getTopBlocks(store) ==
    IF DOMAIN store = {} THEN <<>> ELSE <<deserialize(store[Max(DOMAIN store)])>>

\* a candidate block built without the link to the last block
new_block_unlinked(verified, prev_hash) ==
    LET b == [height |-> verified.height,
              prev_hash |-> ZeroHash,
              transactions |-> verified.transactions,
              txs_number |-> Len(verified.transactions),
              created_ts |-> 0,
              merkle_root |-> ZeroHash,
              hash |-> ZeroHash,
              sigs |-> <<>>]
    IN  [b EXCEPT !.hash = get_hash(b), !.sigs = Append(b.sigs, EmptySignature)]

\* ------------------------------------------------------------------ Simulator: block construction
\* Simulator::process_verified_proposal builds the candidate block from the
\* verified proposal and the cached last block's hash: the hash is taken
\* before the default signature is pushed.
new_block(verified, prev_hash) ==
    LET b == [height |-> verified.height,
              prev_hash |-> prev_hash,
              transactions |-> verified.transactions,
              txs_number |-> Len(verified.transactions),
              created_ts |-> 0,
              merkle_root |-> ZeroHash,
              hash |-> ZeroHash,
              sigs |-> <<>>]
    IN  [b EXCEPT !.hash = get_hash(b), !.sigs = Append(b.sigs, EmptySignature)]

\* ------------------------------------------------------------------ Storage
NoBlocks == [h \in {} |-> EmptyBlock]

\* a view slot no createMutableStorage call has filled yet
NoView ==
    [pc |-> "none", top_hash |-> ZeroHash, top_height |-> 0,
     block_store |-> NoBlocks, remaining |-> {}, committed |-> FALSE]

Views == 1 .. MaxViews

\* the views a caller still holds: created, neither committed nor destroyed
Outstanding == {v \in Views : views[v].pc \in {"open", "append", "wsv"}}

\* the <<height, hash>> entries of the blocks a view staged, in ascending height
RECURSIVE StagedEntries(_, _)
StagedEntries(staged, heights) ==
    IF heights = {} THEN <<>>
    ELSE LET h == Min(heights)
         IN  <<<<h, staged[h].hash>>>> \o StagedEntries(staged, heights \ {h})

\* the view started at the hash of the first block of the store instead of
\* the top one
TopHashOfFirstBlock(store) ==
    IF DOMAIN store = {} THEN ZeroHash ELSE deserialize(store[Min(DOMAIN store)]).hash

\* StorageImpl::createMutableStorage, lines 105-113: the hash of the block
\* getTopBlocks(1) emits, or the zero hash when it emits none
TopHash(store) ==
    LET top == getTopBlocks(store)
    IN  IF top = <<>> THEN ZeroHash ELSE top[Len(top)].hash

\* StorageImpl::createMutableStorage: nullptr when the command executors, the
\* postgres connection or the redis connection cannot be made; otherwise a
\* view whose top hash is the hash of the top block, read without rw_lock_.
createMutableStorage ==
    /\ nviews < MaxViews
    /\ \E executors \in BOOLEAN, postgres \in BOOLEAN, redis \in BOOLEAN :
         IF executors /\ postgres /\ redis
         THEN LET top == getTopBlocks(block_store)
                  top_hash == TopHash(block_store)
                  top_height == IF top = <<>> THEN 0 ELSE top[1].height
              IN  /\ nviews' = nviews + 1
                  /\ views' = [views EXCEPT ![nviews + 1] =
                                  [NoView EXCEPT !.pc = "open",
                                                 !.top_hash = top_hash,
                                                 !.top_height = top_height]]
                  /\ created' = "view"
         ELSE /\ created' = "nullptr"
              /\ UNCHANGED <<views, nviews>>
    /\ UNCHANGED <<block_store, index, wsv, rw_lock, observed>>
    /\ UNCHANGED <<simulatorVars, toriiVars, appVars>>

\* how many blocks the views of a set have staged
RECURSIVE TotalStaged(_)
TotalStaged(vs) ==
    IF vs = {} THEN 0
    ELSE LET v == CHOOSE x \in vs : TRUE
         IN  Cardinality(DOMAIN views[v].block_store) + TotalStaged(vs \ {v})

\* MutableStorageImpl::apply under the chain validator: a block is staged when
\* its height follows the view's top block and its prev_hash is the view's
\* top hash; the staged block becomes the top.
apply(v) ==
    /\ views[v].pc = "open"
    /\ TotalStaged(Views) < MaxBlocks
    /\ \E txs \in TxLists :
         LET b == new_block([height |-> views[v].top_height + 1, transactions |-> txs],
                            views[v].top_hash)
         IN  views' = [views EXCEPT
                 ![v].block_store = [h \in DOMAIN views[v].block_store \cup {b.height} |->
                                        IF h = b.height THEN b ELSE views[v].block_store[h]],
                 ![v].top_hash = b.hash,
                 ![v].top_height = b.height]
    /\ UNCHANGED <<block_store, index, wsv, nviews, rw_lock, created, observed>>
    /\ UNCHANGED <<simulatorVars, toriiVars, appVars>>

\* ~MutableStorageImpl on a view that was never committed: everything staged is
\* rolled back.
drop(v) ==
    /\ views[v].pc = "open"
    /\ views' = [views EXCEPT ![v].pc = "dropped"]
    /\ UNCHANGED <<block_store, index, wsv, nviews, rw_lock, created, observed>>
    /\ UNCHANGED <<simulatorVars, toriiVars, appVars>>

\* StorageImpl::commit, line 181: the exclusive lock is taken (the caller waits
\* while another commit holds it) and the view's ownership moves into commit.
commit_lock(v) ==
    /\ views[v].pc = "open"
    /\ rw_lock = 0
    /\ rw_lock' = v
    /\ views' = [views EXCEPT ![v].pc = "append",
                              ![v].remaining = DOMAIN views[v].block_store]
    /\ UNCHANGED <<block_store, index, wsv, nviews, created, observed>>
    /\ UNCHANGED <<simulatorVars, toriiVars, appVars>>

\* the loop walking the staged blocks from the highest id down
NextStagedDescending(remaining) == Max(remaining)

\* the staged block the loop of lines 185-190 takes next: the map is walked in
\* ascending id
NextStaged(remaining) == Min(remaining)

\* StorageImpl::commit, lines 185-190: one turn of the loop adds the next staged
\* block, serialized, to the flat file.
commit_add(v) ==
    /\ views[v].pc = "append"
    /\ views[v].remaining # {}
    /\ LET id == NextStaged(views[v].remaining)
       IN  /\ block_store' = FlatFileAdd(block_store, id, serialize(views[v].block_store[id]))
           /\ views' = [views EXCEPT ![v].remaining = @ \ {id}]
    /\ UNCHANGED <<index, wsv, nviews, rw_lock, created, observed>>
    /\ UNCHANGED <<simulatorVars, toriiVars, appVars>>

\* the view marked committed as soon as the index is finalized, before COMMIT
commit_index_marking_committed(v) ==
    /\ views[v].pc = "append"
    /\ views[v].remaining = {}
    /\ \E ok \in BOOLEAN :
         IF ok
         THEN /\ index' = [h \in DOMAIN index \cup DOMAIN views[v].block_store |->
                             IF h \in DOMAIN views[v].block_store
                             THEN views[v].block_store[h].hash ELSE index[h]]
              /\ views' = [views EXCEPT ![v].pc = "wsv", ![v].committed = TRUE]
              /\ UNCHANGED rw_lock
         ELSE /\ views' = [views EXCEPT ![v].pc = "index_failed"]
              /\ rw_lock' = 0
              /\ UNCHANGED index
    /\ UNCHANGED <<block_store, wsv, nviews, created, observed>>
    /\ UNCHANGED <<simulatorVars, toriiVars, appVars>>

\* StorageImpl::commit, lines 192-193: the view's queued index commands are
\* executed, or the redis client throws: the exception leaves commit, which
\* destroys the view and releases the lock.
commit_index(v) ==
    /\ views[v].pc = "append"
    /\ views[v].remaining = {}
    /\ \E ok \in BOOLEAN :
         IF ok
         THEN /\ index' = [h \in DOMAIN index \cup DOMAIN views[v].block_store |->
                             IF h \in DOMAIN views[v].block_store
                             THEN views[v].block_store[h].hash ELSE index[h]]
              /\ views' = [views EXCEPT ![v].pc = "wsv"]
              /\ UNCHANGED rw_lock
         ELSE /\ views' = [views EXCEPT ![v].pc = "index_failed"]
              /\ rw_lock' = 0
              /\ UNCHANGED index
    /\ UNCHANGED <<block_store, wsv, nviews, created, observed>>
    /\ UNCHANGED <<simulatorVars, toriiVars, appVars>>

\* StorageImpl::commit, lines 195-197: the view's WSV transaction is committed,
\* the view is marked committed, and commit returns (view destroyed, lock
\* released); or COMMIT throws and the exception leaves commit.
commit_wsv(v) ==
    /\ views[v].pc = "wsv"
    /\ \E ok \in BOOLEAN :
         IF ok
         THEN /\ wsv' = wsv \o StagedEntries(views[v].block_store,
                                            DOMAIN views[v].block_store)
              /\ views' = [views EXCEPT ![v].pc = "done", ![v].committed = TRUE]
         ELSE /\ views' = [views EXCEPT ![v].pc = "wsv_failed"]
              /\ UNCHANGED wsv
    /\ rw_lock' = 0
    /\ UNCHANGED <<block_store, index, nviews, created, observed>>
    /\ UNCHANGED <<simulatorVars, toriiVars, appVars>>

\* what a read through getBlockQuery() and getWsvQuery() sees: the handles are
\* handed out as they are and take no lock
Snapshot ==
    [blocks |-> {<<h, deserialize(block_store[h]).hash>> : h \in DOMAIN block_store},
     index |-> {<<h, index[h]>> : h \in DOMAIN index},
     wsv |-> wsv]

NoRead == [blocks |-> {}, index |-> {}, wsv |-> <<>>]

\* StorageImpl::getWsvQuery / getBlockQuery: a reader queries both handles
read ==
    /\ observed' = Snapshot
    /\ UNCHANGED <<block_store, index, wsv, views, nviews, rw_lock, created>>
    /\ UNCHANGED <<simulatorVars, toriiVars, appVars>>

InitStorage ==
    /\ block_store = [h \in {} |-> <<>>]
    /\ index = [h \in {} |-> ZeroHash]
    /\ wsv = <<>>
    /\ views = [v \in Views |-> NoView]
    /\ nviews = 0
    /\ rw_lock = 0
    /\ created = "none"
    /\ observed = NoRead

InitSimulator ==
    /\ last_block = EmptyBlock
    /\ notifier = <<>>
    /\ block_notifier = <<>>
    /\ temporary = 0
    /\ proposal = [height |-> 0, transactions |-> <<>>]
    /\ ndelivered = 0
    /\ faulted = FALSE

\* a default-constructed iroha::protocol::ToriiResponse
ToriiResponse == [status |-> "", tx_hash |-> 0]

\* no transaction: the value of `request` before the first submission
NoTransaction == [hash |-> 0, commands |-> 0, signed |-> FALSE]

InitCommandService ==
    /\ queue = <<>>
    /\ request = NoTransaction
    /\ response = ToriiResponse
    /\ nsubmitted = 0

\* the listen addresses and key pairs a configuration may name
Addresses == {"0.0.0.0:50051", "127.0.0.1:10001"}
Pubkeys == {"pubkey_a", "pubkey_b"}
Configs == [listenAddress : Addresses, pubkey : Pubkeys]

\* a default-constructed model::Peer
DefaultPeer == [pubkey |-> "", address |-> ""]

\* the Application before the body of its constructor ran, under a
\* configuration and a build
Start(cfg, nd) ==
    /\ config_ = cfg
    /\ ndebug = nd
    /\ app_pc = "constructor"
    /\ held = {}
    /\ open_order = <<>>
    /\ storage = "nullptr"
    /\ peer = DefaultPeer
    /\ yac_address = "unset"
    /\ internal_server = "nullptr"
    /\ torii_server = "nullptr"
    /\ server_thread = "none"
    /\ port = 0
    /\ run_called = FALSE

InitService == Start([listenAddress |-> "0.0.0.0:50051", pubkey |-> "pubkey_a"], FALSE)

Init == InitStorage /\ InitSimulator /\ InitCommandService /\ InitService

NextStorage ==
    \/ createMutableStorage
    \/ \E v \in Views : apply(v)
    \/ \E v \in Views : drop(v)
    \/ \E v \in Views : commit_lock(v)
    \/ \E v \in Views : commit_add(v)
    \/ \E v \in Views : commit_index(v)
    \/ \E v \in Views : commit_wsv(v)

Spec == Init /\ [][NextStorage]_vars

\* the storage with a reader of the query handles beside it
NextReaders == NextStorage \/ read

SpecReaders == Init /\ [][NextReaders]_vars

\* ------------------------------------------------------------------ Simulator
\* the proposals the ordering gate can deliver
Proposals == [height : 1 .. MaxHeight + 1, transactions : TxLists]

\* the sub-lists of a transaction list, order kept
RECURSIVE SubLists(_)
SubLists(txs) ==
    IF txs = <<>> THEN {<<>>}
    ELSE LET rest == SubLists(Tail(txs))
         IN  rest \cup {<<Head(txs)>> \o r : r \in rest}

\* StatefulValidator::validate: the verified proposals it can return, each the
\* proposal with the transactions that passed, in their order
validate(p) == {[height |-> p.height, transactions |-> txs] : txs \in SubLists(p.transactions)}

\* Simulator::process_proposal, lines 50-55: last_block is reset, then every
\* block getBlocks emits overwrites it
fetch_last_block(store, p) ==
    LET blocks == getBlocks(store, p.height - 1, p.height)
    IN  IF blocks = <<>> THEN EmptyBlock ELSE blocks[Len(blocks)]

\* the height test without the + 1
chain_lag_same_height(last, p) == last.height # p.height

\* Simulator::process_proposal, line 56: the proposal is dropped
chain_lag(last, p) == last.height + 1 # p.height

\* Simulator::process_proposal with the process_verified_proposal call the
\* notifier makes inside on_next.  createTemporaryWsv may return nullptr, which
\* line 61 dereferences: the process dies, or validate never touches the
\* reference and the proposal goes through.
process_proposal(p) ==
    /\ ~faulted
    /\ ndelivered < MaxProposals
    /\ ndelivered' = ndelivered + 1
    /\ proposal' = p
    /\ LET last == fetch_last_block(block_store, p)
       IN  /\ last_block' = last
           /\ IF chain_lag(last, p)
              THEN UNCHANGED <<notifier, block_notifier, temporary, faulted>>
              ELSE \E opened \in BOOLEAN, dies \in BOOLEAN :
                     IF ~opened /\ dies
                     THEN /\ faulted' = TRUE
                          /\ UNCHANGED <<notifier, block_notifier, temporary>>
                     ELSE /\ temporary' = IF opened THEN temporary + 1 ELSE temporary
                          /\ \E verified \in validate(p) :
                               /\ notifier' = Append(notifier, verified)
                               /\ block_notifier' =
                                      Append(block_notifier, new_block(verified, last.hash))
                          /\ UNCHANGED faulted
    /\ UNCHANGED <<storageVars, toriiVars, appVars>>

\* the block stores commits of well-chained views leave: every chain of at most
\* MaxHeight blocks from the genesis
RECURSIVE ChainsOfLength(_)
ChainsOfLength(n) ==
    IF n = 0 THEN {[h \in {} |-> <<>>]}
    ELSE {FlatFileAdd(c, n, serialize(new_block([height |-> n, transactions |-> txs],
                                                TopHash(c)))) :
             c \in ChainsOfLength(n - 1), txs \in TxLists}

InitLedger ==
    /\ block_store \in UNION {ChainsOfLength(n) : n \in 0 .. MaxHeight}
    /\ index = [h \in DOMAIN block_store |-> deserialize(block_store[h]).hash]
    /\ wsv = StagedEntries([h \in DOMAIN block_store |-> deserialize(block_store[h])],
                           DOMAIN block_store)
    /\ views = [v \in Views |-> NoView]
    /\ nviews = 0
    /\ rw_lock = 0
    /\ created = "none"
    /\ observed = NoRead

NextSimulator == \E p \in Proposals : process_proposal(p)

InitAtLedger == InitLedger /\ InitSimulator /\ InitCommandService /\ InitService

SpecSimulator == InitAtLedger /\ [][NextSimulator]_vars

\* ------------------------------------------------------- command service
\* the transactions a client may submit as its n-th submission: the hash
\* identifies the transaction, the other fields are what stateless
\* validation looks at
Transactions(n) == [hash : {n}, commands : 0 .. 1, signed : BOOLEAN]

\* validator::stateless::validate: a non-empty command list and signatures
\* that verify
stateless_validate(tx) == tx.commands >= 1 /\ tx.signed

\* the queue after a submission that is appended whatever validation said
enqueue_unchecked(q, tx) == Append(q, tx)

\* CommandService::Torii, lines 33-40: ordering::queue::append is called in
\* the branch where validation passed, and in no other
enqueue(q, tx) == IF stateless_validate(tx) THEN Append(q, tx) ELSE q

\* Application::initOrderingGate, line 124
max_transactions_in_proposal == 10

\* CommandService::Torii: both branches write a default-constructed
\* ToriiResponse and the call returns grpc::Status::OK
Torii ==
    /\ nsubmitted < MaxSubmissions
    /\ \E tx \in Transactions(nsubmitted + 1) :
         /\ request' = tx
         /\ queue' = enqueue(queue, tx)
         /\ response' = ToriiResponse
    /\ nsubmitted' = nsubmitted + 1
    /\ UNCHANGED <<storageVars, simulatorVars, appVars>>

NextTorii == Torii

SpecTorii == Init /\ [][NextTorii]_vars

\* ------------------------------------------------------------ Application
\* the order in which StorageImpl::initConnections opens the backends
BackendOrder == <<"block_store", "index", "wsv">>

AllBackends == {BackendOrder[i] : i \in 1 .. Len(BackendOrder)}

\* the connections still open when a failed attempt returned, had the
\* backends been held through plain pointers
KeepOnReturn(h) == h

\* initConnections, `return nonstd::nullopt;`: the unique_ptrs of the
\* backends opened so far go out of scope and close them
ReleaseOnReturn(h) == {}

\* one of the three opening steps of initConnections: the backend opens, or
\* the attempt ends with nullopt
open_backend(at, backend, then) ==
    /\ app_pc = at
    /\ \E ok \in BOOLEAN :
         IF ok
         THEN /\ held' = held \cup {backend}
              /\ open_order' = Append(open_order, backend)
              /\ app_pc' = then
         ELSE /\ held' = ReleaseOnReturn(held)
              /\ app_pc' = "create_failed"
              /\ UNCHANGED open_order
    /\ UNCHANGED <<config_, ndebug, storage, peer, yac_address, internal_server,
                   torii_server, server_thread, port, run_called>>
    /\ UNCHANGED <<storageVars, simulatorVars, toriiVars>>

\* initConnections, lines 127-132: FlatFile::create
open_block_store == open_backend("constructor", BackendOrder[1], "open_index")

\* initConnections, lines 134-142: redis_client::connect
open_index == open_backend("open_index", BackendOrder[2], "open_wsv")

\* initConnections, lines 146-154: lazyconnection::activate
open_wsv == open_backend("open_wsv", BackendOrder[3], "create")

\* StorageImpl::create: nullptr when initConnections returned nullopt,
\* otherwise the StorageImpl constructor takes the connections over; its
\* exec calls may throw, which ends the construction of the Application
create ==
    /\ app_pc \in {"create", "create_failed"}
    /\ IF app_pc = "create_failed"
       THEN /\ app_pc' = "assert_storage"
            /\ UNCHANGED <<storage, held>>
       ELSE \E ok \in BOOLEAN :
              IF ok
              THEN /\ storage' = "object"
                   /\ app_pc' = "assert_storage"
                   /\ UNCHANGED held
              ELSE /\ held' = ReleaseOnReturn(held)
                   /\ app_pc' = "terminated"
                   /\ UNCHANGED storage
    /\ UNCHANGED <<config_, ndebug, open_order, peer, yac_address, internal_server,
                   torii_server, server_thread, port, run_called>>
    /\ UNCHANGED <<storageVars, simulatorVars, toriiVars>>

\* BOOST_ASSERT(condition): nothing under NDEBUG, abort when it fails otherwise
BOOST_ASSERT(condition, then) == IF condition \/ ndebug THEN then ELSE "aborted"

\* Application::initStorage, line 73
initStorage ==
    /\ app_pc = "assert_storage"
    /\ app_pc' = BOOST_ASSERT(storage # "nullptr", "constructed")
    /\ UNCHANGED <<config_, ndebug, held, open_order, storage, peer, yac_address,
                   internal_server, torii_server, server_thread, port, run_called>>
    /\ UNCHANGED <<storageVars, simulatorVars, toriiVars>>

\* what a step that dereferences a pointer leads to: the next position, or
\* when the pointer is null anything the build does with it, a crash included
dereference(null, then) == IF null THEN {then, "crashed"} ELSE {then}

\* Application::init up to initPeerQuery, which calls storage->getWsvQuery()
initPeerQuery ==
    /\ app_pc = "constructed"
    /\ app_pc' \in dereference(storage = "nullptr", "initPeer")
    /\ UNCHANGED <<config_, ndebug, held, open_order, storage, peer, yac_address,
                   internal_server, torii_server, server_thread, port, run_called>>
    /\ UNCHANGED <<storageVars, simulatorVars, toriiVars>>

\* the model::Peer p that initPeer fills in from the configuration
LocalPeer(cfg) == [pubkey |-> cfg.pubkey, address |-> cfg.listenAddress]

\* Application::initPeer: p is a local of the function and is gone when it
\* returns; the member `peer` is read for the log line and not written
initPeer ==
    /\ app_pc = "initPeer"
    /\ LET p == LocalPeer(config_)
       IN  peer' = peer
    /\ app_pc' = "initConsensusGate"
    /\ UNCHANGED <<config_, ndebug, held, open_order, storage, yac_address,
                   internal_server, torii_server, server_thread, port, run_called>>
    /\ UNCHANGED <<storageVars, simulatorVars, toriiVars>>

\* Application::init from initCryptoProvider to initConsensusGate, which
\* hands the member peer.address to the consensus gate
initConsensusGate ==
    /\ app_pc = "initConsensusGate"
    /\ yac_address' = peer.address
    /\ app_pc' = "initTorii"
    /\ UNCHANGED <<config_, ndebug, held, open_order, storage, peer,
                   internal_server, torii_server, server_thread, port, run_called>>
    /\ UNCHANGED <<storageVars, simulatorVars, toriiVars>>

\* Application::init from initSynchronizer to initQueryService
initTorii ==
    /\ app_pc = "initTorii"
    /\ app_pc' = "initialized"
    /\ UNCHANGED <<config_, ndebug, held, open_order, storage, peer, yac_address,
                   internal_server, torii_server, server_thread, port, run_called>>
    /\ UNCHANGED <<storageVars, simulatorVars, toriiVars>>

\* Application::run, lines 208-215: the ServerRunner is created, port is a
\* null pointer and AddListeningPort receives that pointer by value
run_listen ==
    /\ app_pc = "initialized"
    /\ run_called' = TRUE
    /\ torii_server' = "created"
    /\ port' = 0
    /\ app_pc' = "run_assert"
    /\ UNCHANGED <<config_, ndebug, held, open_order, storage, peer, yac_address,
                   internal_server, server_thread>>
    /\ UNCHANGED <<storageVars, simulatorVars, toriiVars>>

\* Application::run, line 216
run_assert ==
    /\ app_pc = "run_assert"
    /\ app_pc' = BOOST_ASSERT(port # 0, "run_start")
    /\ UNCHANGED <<config_, ndebug, held, open_order, storage, peer, yac_address,
                   internal_server, torii_server, server_thread, port, run_called>>
    /\ UNCHANGED <<storageVars, simulatorVars, toriiVars>>

\* Application::run, lines 218-226: the services are registered, the
\* internal server is built and started, the thread runs the Torii server
run_start ==
    /\ app_pc = "run_start"
    /\ internal_server' = "running"
    /\ torii_server' = "running"
    /\ server_thread' = "joinable"
    /\ app_pc' = "run_log"
    /\ UNCHANGED <<config_, ndebug, held, open_order, storage, peer, yac_address,
                   port, run_called>>
    /\ UNCHANGED <<storageVars, simulatorVars, toriiVars>>

\* Application::run, lines 228-231: the log line reads *port, then the
\* caller waits for the servers
run_wait ==
    /\ app_pc = "run_log"
    /\ app_pc' \in dereference(port = 0, "running")
    /\ UNCHANGED <<config_, ndebug, held, open_order, storage, peer, yac_address,
                   internal_server, torii_server, server_thread, port, run_called>>
    /\ UNCHANGED <<storageVars, simulatorVars, toriiVars>>

\* a shutdown signalled to a server whether or not it was started
ShutdownUnguarded(server) == "shutdown"

\* Application::~Application: `if (server) server->Shutdown();`
Shutdown(server) == IF server # "nullptr" THEN "shutdown" ELSE server

\* ~Application, lines 40-42; the Application is destroyed when no call on
\* it is in progress but the wait of run()
dtor_internal ==
    /\ app_pc \in {"constructed", "initialized", "running"}
    /\ internal_server' = Shutdown(internal_server)
    /\ app_pc' = "dtor_torii"
    /\ UNCHANGED <<config_, ndebug, held, open_order, storage, peer, yac_address,
                   torii_server, server_thread, port, run_called>>
    /\ UNCHANGED <<storageVars, simulatorVars, toriiVars>>

\* ~Application, lines 43-45
dtor_torii ==
    /\ app_pc = "dtor_torii"
    /\ torii_server' = Shutdown(torii_server)
    /\ app_pc' = "dtor_join"
    /\ UNCHANGED <<config_, ndebug, held, open_order, storage, peer, yac_address,
                   internal_server, server_thread, port, run_called>>
    /\ UNCHANGED <<storageVars, simulatorVars, toriiVars>>

\* ~Application, lines 46-48
dtor_join ==
    /\ app_pc = "dtor_join"
    /\ server_thread' = IF server_thread = "joinable" THEN "joined" ELSE server_thread
    /\ app_pc' = "dtor_members"
    /\ UNCHANGED <<config_, ndebug, held, open_order, storage, peer, yac_address,
                   internal_server, torii_server, port, run_called>>
    /\ UNCHANGED <<storageVars, simulatorVars, toriiVars>>

\* after the body of ~Application the members are destroyed: the last
\* references to the StorageImpl go and its connections are closed
dtor_members ==
    /\ app_pc = "dtor_members"
    /\ storage' = IF storage = "object" THEN "closed" ELSE storage
    /\ held' = {}
    /\ app_pc' = "destroyed"
    /\ UNCHANGED <<config_, ndebug, open_order, peer, yac_address,
                   internal_server, torii_server, server_thread, port, run_called>>
    /\ UNCHANGED <<storageVars, simulatorVars, toriiVars>>

InitConfigured ==
    /\ InitStorage
    /\ InitSimulator
    /\ InitCommandService
    /\ \E cfg \in Configs, nd \in BOOLEAN : Start(cfg, nd)

NextApplication ==
    \/ open_block_store
    \/ open_index
    \/ open_wsv
    \/ create
    \/ initStorage
    \/ initPeerQuery
    \/ initPeer
    \/ initConsensusGate
    \/ initTorii
    \/ run_listen
    \/ run_assert
    \/ run_start
    \/ run_wait
    \/ dtor_internal
    \/ dtor_torii
    \/ dtor_join
    \/ dtor_members

SpecApplication == InitConfigured /\ [][NextApplication]_vars

\* ================================================================== claims

\* the blocks a committed-WSV log reflects
Applied(log) == {log[i] : i \in 1 .. Len(log)}

\* C1: every read through the query handles sees the block store, the index and
\* the WSV at the same commit: either none or all of a commit's blocks, index
\* entries and WSV changes.
C1_ReadersSeeWholeCommits ==
    /\ observed.blocks = observed.index
    /\ observed.blocks = Applied(observed.wsv)

\* the phases of commit(view) a view has passed
BlocksAppended(v) ==
    \A h \in DOMAIN views[v].block_store : h \in DOMAIN block_store
IndexFinalized(v) == views[v].pc \in {"wsv", "wsv_failed", "done"}
WsvCommitted(v) == views[v].pc = "done"

\* C2: in commit(view) the write lock is held throughout, the staged blocks are
\* appended first, the WSV transaction is committed next and the index is
\* finalized last: the index is never finalized before the WSV has committed.
C2_AppendThenWsvThenIndex ==
    \A v \in Views :
        /\ views[v].pc \in {"append", "wsv"} => rw_lock = v
        /\ WsvCommitted(v) => BlocksAppended(v)
        /\ IndexFinalized(v) => WsvCommitted(v)

\* C3: at most one mutable view is outstanding at any time.
C3_SingleWriter == Cardinality(Outstanding) <= 1

C5_HashChain ==
    \A h \in DOMAIN block_store :
        LET b == deserialize(block_store[h])
        IN  IF h = 1 THEN b.prev_hash = ZeroHash
            ELSE /\ h - 1 \in DOMAIN block_store
                 /\ b.prev_hash = get_hash(deserialize(block_store[h - 1]))

\* what the caller of commit(view) holds afterwards: the view's lifecycle state
\* and how the call ended
ViewState(v) ==
    CASE views[v].pc = "none" -> "none"
      [] views[v].pc \in {"open", "append", "wsv"} -> "open"
      [] views[v].pc = "done" -> "committed"
      [] OTHER -> "destroyed"

CommitOutcome(v) ==
    CASE views[v].pc = "done" -> "returned"
      [] views[v].pc \in {"index_failed", "wsv_failed"} -> "exception"
      [] OTHER -> "none"

CommitFailedIn(v) == views[v].pc \in {"index_failed", "wsv_failed"}

\* C6: a commit in which a backend step fails leaves the view poisoned, never
\* committed, and hands the caller CommitFailed.
C6_FailedCommitPoisonsView ==
    \A v \in Views :
        CommitFailedIn(v) =>
            /\ ViewState(v) = "poisoned"
            /\ ~views[v].committed
            /\ CommitOutcome(v) = "CommitFailed"

\* a block at height h has been committed: stored and applied to the WSV
AlreadyCommitted(h) ==
    /\ h \in DOMAIN block_store
    /\ \E i \in 1 .. Len(wsv) : wsv[i][1] = h

\* C7: a commit whose blocks are all at heights already committed changes
\* neither the block store nor the index nor the WSV.
C7_IdempotentOnHeight ==
    [][\A v \in Views :
          (/\ rw_lock = v
           /\ DOMAIN views[v].block_store # {}
           /\ \A h \in DOMAIN views[v].block_store : AlreadyCommitted(h))
          => UNCHANGED <<block_store, index, wsv>>]_vars

\* C8: the view createMutableStorage returns starts at the hash of the block of
\* the greatest height in the block store, or at the zero hash when the block
\* store is empty.
C8_ViewStartsAtTopHash ==
    [][nviews' = nviews + 1 =>
          views'[nviews'].top_hash =
              IF DOMAIN block_store = {} THEN ZeroHash
              ELSE get_hash(deserialize(block_store[Max(DOMAIN block_store)]))]_vars

C8_Witness ==
    \E v \in Views :
        /\ views[v].pc = "open"
        /\ DOMAIN views[v].block_store = {}
        /\ views[v].top_hash # ZeroHash
        /\ Cardinality(DOMAIN block_store) >= 2

\* the proposal delivered in this step finds no block at the height below it
ParentMissing == (proposal'.height - 1) \notin DOMAIN block_store

\* the proposal delivered in this step is dropped
Dropped ==
    /\ temporary' = temporary
    /\ notifier' = notifier
    /\ block_notifier' = block_notifier

\* C9 as stated: a proposal whose parent block is not found, or for which the
\* fetched block's height + 1 differs from the proposal's height, is dropped.
C9_ChainLagDrop ==
    [][(/\ ndelivered' = ndelivered + 1
        /\ \/ ParentMissing
           \/ last_block'.height + 1 # proposal'.height)
       => Dropped]_vars

\* C9 amended: a proposal above height 1 whose parent block is not found, or any
\* proposal for which the fetched block's height + 1 differs from the
\* proposal's height, is dropped.
C9_ChainLagDropAboveGenesis ==
    [][(/\ ndelivered' = ndelivered + 1
        /\ \/ ParentMissing /\ proposal'.height # 1
           \/ last_block'.height + 1 # proposal'.height)
       => Dropped]_vars

C9_Witness ==
    /\ ndelivered = 1
    /\ proposal.height > 1
    /\ (proposal.height - 1) \notin DOMAIN block_store
    /\ DOMAIN block_store # {}
    /\ notifier = <<>> /\ block_notifier = <<>> /\ temporary = 0 /\ ~faulted

\* the candidate block carries its verified proposal
CarriesProposal(b, verified) ==
    /\ b.height = verified.height
    /\ b.transactions = verified.transactions
    /\ b.txs_number = Len(verified.transactions)

\* the candidate block links to the stored block at the height below it
LinksToStoredParent(b) ==
    /\ b.height - 1 \in DOMAIN block_store
    /\ b.prev_hash = get_hash(deserialize(block_store[b.height - 1]))

C11_CandidateUnsigned ==
    \A i \in 1 .. Len(block_notifier) : Len(block_notifier[i].sigs) = 0

\* the step delivers a proposal that is not dropped for chain lag
DeliversLive ==
    /\ ndelivered' = ndelivered + 1
    /\ last_block'.height + 1 = proposal'.height

\* the step appends exactly one element to the stream
EmitsOne(stream, stream2) ==
    /\ Len(stream2) = Len(stream) + 1
    /\ SubSeq(stream2, 1, Len(stream)) = stream

\* C16: a proposal that is not dropped for chain lag gets exactly one verified
\* proposal on stream A and exactly one candidate block on stream B, appended
\* behind the earlier ones; the streams change for delivered proposals only.
C16_OneCandidatePerProposalInOrder ==
    [][/\ DeliversLive =>
            /\ EmitsOne(notifier, notifier')
            /\ notifier'[Len(notifier')].height = proposal'.height
            /\ EmitsOne(block_notifier, block_notifier')
            /\ block_notifier'[Len(block_notifier')].height = proposal'.height
       /\ ndelivered' = ndelivered =>
            /\ notifier' = notifier
            /\ block_notifier' = block_notifier]_vars

\* the step delivers a live proposal and createTemporaryWsv returns no view
TemporaryWsvFails == DeliversLive /\ temporary' = temporary

\* C17: when createTemporaryWsv fails, the Simulator drops the proposal: it does
\* not fault, and it emits neither a verified proposal nor a candidate block.
C17_TemporaryFailureDropsProposal ==
    [][TemporaryWsvFails =>
          /\ ~faulted'
          /\ notifier' = notifier
          /\ block_notifier' = block_notifier]_vars

\* a view that was committed, failed in commit or was dropped
Finished(v) == views[v].pc \in {"done", "index_failed", "wsv_failed", "dropped"}

\* everything the view staged is in the block store, the index and the WSV
Promoted(v) ==
    /\ views[v].remaining = {}
    /\ \A h \in DOMAIN views[v].block_store :
          /\ h \in DOMAIN block_store
          /\ h \in DOMAIN index
          /\ <<h, views[v].block_store[h].hash>> \in Applied(wsv)

\* C18: a view is marked committed only once its block appends, its index
\* commit and its WSV commit are done, and a view that was committed or
\* dropped is never touched again.
C18_ViewLifecycle ==
    /\ [](\A v \in Views : views[v].committed => views[v].pc = "done" /\ Promoted(v))
    /\ [][\A v \in Views : Finished(v) => views'[v] = views[v]]_vars

C18_Witness ==
    \E v, w \in Views :
        /\ views[v].committed
        /\ Cardinality(DOMAIN views[v].block_store) >= 1
        /\ views[w].pc = "dropped"

\* C12: a submission that fails stateless validation is answered with status
\* STATELESS_FAILED, an accepted one with another status and the hash of
\* the transaction.
C12_ResponseTellsOutcome ==
    nsubmitted > 0 =>
        IF stateless_validate(request)
        THEN response.status # "STATELESS_FAILED" /\ response.tx_hash = request.hash
        ELSE response.status = "STATELESS_FAILED"

\* how many entries of the queue are the transaction of that hash
Queued(q, hash) == Cardinality({i \in 1 .. Len(q) : q[i].hash = hash})

\* C13: a submission is appended to the ordering queue exactly once when it
\* passes stateless validation and leaves the queue unchanged when it fails.
C13_QueuedIffStatelessValid ==
    [][nsubmitted' = nsubmitted + 1 =>
          IF stateless_validate(request')
          THEN EmitsOne(queue, queue')
               /\ queue'[Len(queue')] = request'
               /\ Queued(queue', request'.hash) = 1
          ELSE queue' = queue /\ Queued(queue', request'.hash) = 0]_vars

C13_Witness ==
    /\ Len(queue) >= 2
    /\ nsubmitted >= Len(queue) + 2
    /\ stateless_validate(request)
    /\ queue[Len(queue)] = request

\* C14: the pending queue never holds more transactions than its high-water
\* mark, and a valid submission made at high-water is answered BACKPRESSURE.
C14_QueueBounded ==
    /\ Len(queue) <= max_transactions_in_proposal
    /\ (nsubmitted > 0 /\ stateless_validate(request) /\ queue[Len(queue)] # request)
          => response.status = "BACKPRESSURE"

\* C15: initConnections opens block store, index and WSV in that order; an
\* attempt that did not open all three ends with nothing held and no Storage
\* object, and a Storage object exists only over all three backends.
C15_InitAllOrNothing ==
    /\ open_order = SubSeq(BackendOrder, 1, Len(open_order))
    /\ storage = "object" => held = AllBackends /\ open_order = BackendOrder
    /\ (app_pc \notin {"constructor", "open_index", "open_wsv"} /\ open_order # BackendOrder)
          => held = {} /\ storage = "nullptr"

C15_Witness ==
    /\ app_pc = "create_failed"
    /\ open_order = <<"block_store", "index">>

\* C19: the Storage is closed only after every started server was told to
\* shut down and the server thread was joined, and destroying an Application
\* whose run() was never called touches no server.
C19_ShutdownBeforeStorageCloses ==
    /\ (storage = "closed" \/ app_pc = "destroyed") =>
          /\ internal_server \in {"nullptr", "shutdown"}
          /\ torii_server \in {"nullptr", "shutdown"}
          /\ server_thread \in {"none", "joined"}
    /\ ~run_called =>
          /\ internal_server = "nullptr"
          /\ torii_server = "nullptr"
          /\ server_thread = "none"

C19_Witness ==
    /\ storage = "closed"
    /\ internal_server = "shutdown"
    /\ torii_server = "shutdown"
    /\ server_thread = "joined"

\* C20: whenever Application::run stands at its assertion the port pointer
\* is not null.
C20_PortNotNull == app_pc = "run_assert" => port # 0

\* C21: once initConsensusGate has run, the address it handed to the
\* consensus gate is the configured listen address, and the member peer is
\* the record initPeer filled in from the configuration.
C21_ConsensusGetsListenAddress ==
    yac_address # "unset" =>
        /\ yac_address = config_.listenAddress
        /\ peer = LocalPeer(config_)

====
